---- MODULE Spec2Model ----
(***************************************************************************)
(* A model of pyrtl/inputoutput.py: the BLIF netlist parser                *)
(* (input_from_blif) and the two emitters (output_to_verilog,              *)
(* output_to_trivialgraph), over the circuit IR (wires and logic nets),    *)
(* and of the vending machine of firrtl_tests/example3-statemachine.py.    *)
(*                                                                         *)
(* A signal name is a record [base, idx]: the text base, followed by       *)
(* "[idx]" when idx >= 0.  NameStr renders the text.                       *)
(***************************************************************************)
EXTENDS Integers, Sequences, FiniteSets, TLC

VARIABLES
    model,        \* the parsed .model: input_list, output_list, merge_io_vectors
    wires,        \* block.wirevector_set, in creation order
    logic,        \* block.logic, in creation order
    clk_set,      \* names known to be clocks
    ff_clk_set,   \* names used as a flip-flop clock
    pc,           \* where input_from_blif stands
    err,          \* the error raised, "" when none
    todo,         \* keys of name_counts not yet visited by the running loop
    ncmd,         \* commands of command_list processed so far
    last,         \* the command processed last, and the block before it
    file,         \* the lines printed to the open file
    files,        \* the files of the emissions that ended before
    order,        \* the order in which this run iterates the block's sets
    nodes,        \* output_to_trivialgraph: entries [key, id, label], one per key
    edges,        \* output_to_trivialgraph: set of <<from id, to id>>
    edge_names,   \* output_to_trivialgraph: entries [edge, label], one per edge
    uid,          \* output_to_trivialgraph: the next id
    state,        \* example3: the value held by the 3-bit register state
    sim_trace     \* example3: one entry per simulated cycle, the value of each wire

emitVars == <<file, files, order, nodes, edges, edge_names, uid>>

simVars == <<state, sim_trace>>

vars == <<model, wires, logic, clk_set, ff_clk_set, pc, err, todo, ncmd, last,
          file, files, order, nodes, edges, edge_names, uid, state, sim_trace>>

-----------------------------------------------------------------------------
(* Bounds *)

MaxCommands == 2
MaxWidth == 3

-----------------------------------------------------------------------------
(* Names *)

NoIdx == -1

N(base) == [base |-> base, idx |-> NoIdx]

NI(base, i) == [base |-> base, idx |-> i]

NameStr(n) ==
    IF n.idx = NoIdx THEN n.base
    ELSE n.base \o "[" \o ToString(n.idx) \o "]"

\* re.sub(r'\[([0-9]+)\]$', '', x)
StripIndex(n) == [base |-> n.base, idx |-> NoIdx]

\* input_name + '[' + str(i) + ']'
BitName(n, i) == [base |-> NameStr(n), idx |-> i]

\* command['Q'] + '_reg'
RegName(q) == N(NameStr(q) \o "_reg")

ClkName == N("clk")

\* collections.Counter(start_names)[x]
NameCount(list, x) ==
    Cardinality({i \in DOMAIN list : StripIndex(list[i]) = x})

NameKeys(list) == {StripIndex(list[i]) : i \in DOMAIN list}

-----------------------------------------------------------------------------
(* The circuit IR: wires and logic nets of a block *)

EmptyBlock == [wires |-> <<>>, logic |-> <<>>, ok |-> TRUE]

WireVector(name, kind, bitwidth, val) ==
    [name |-> name, kind |-> kind, bitwidth |-> bitwidth, val |-> val]

LogicNet(op, op_param, args, dests) ==
    [op |-> op, op_param |-> op_param, args |-> args, dests |-> dests]

\* block.get_wirevector_by_name(x): the wire's index, 0 for None
get_wirevector_by_name(b, x) ==
    IF \E i \in DOMAIN b.wires : b.wires[i].name = x
    THEN CHOOSE i \in DOMAIN b.wires : b.wires[i].name = x
    ELSE 0

\* declare a wire; a name already in use is DuplicateName
add_wirevector(b, w) ==
    IF ~b.ok THEN b
    ELSE IF get_wirevector_by_name(b, w.name) # 0 THEN [b EXCEPT !.ok = FALSE]
    ELSE [b EXCEPT !.wires = Append(@, w)]

add_net(b, net) ==
    IF ~b.ok THEN b ELSE [b EXCEPT !.logic = Append(@, net)]

\* an anonymous wire gets the next tmp name
TmpName(b) == N("tmp" \o ToString(Len(b.wires) + 1))

ConstName(b) == N("const" \o ToString(Len(b.wires) + 1))

\* a freshly declared wire is the last one
Declared(b) == [b |-> b, w |-> Len(b.wires)]

\* wire.Const(v, bitwidth=1, block=block)
Const(b, v) == Declared(add_wirevector(b, WireVector(ConstName(b), "Const", 1, v)))

\* dest <<= src
Assign(b, dest, src) == add_net(b, LogicNet("w", <<>>, <<src>>, <<dest>>))

\* reg.next <<= src
AssignNext(b, reg, src) == add_net(b, LogicNet("r", <<>>, <<src>>, <<reg>>))

\* ~a, a & b, a | b, a ^ b: a new anonymous wire driven by one net
LogicOp(b, op, args) ==
    LET b1 == add_wirevector(b, WireVector(TmpName(b), "Wire", 1, 0))
        t  == Len(b1.wires)
    IN  [b |-> add_net(b1, LogicNet(op, <<>>, args, <<t>>)), w |-> t]

\* w[i]: a new anonymous 1-bit wire selecting bit i of w
SelectBit(b, w, i) ==
    LET b1 == add_wirevector(b, WireVector(TmpName(b), "Wire", 1, 0))
        t  == Len(b1.wires)
    IN  [b |-> add_net(b1, LogicNet("s", <<i>>, <<w>>, <<t>>)), w |-> t]

\* helperfuncs.concat(*bit_list): args[0] is the most significant part
concat(b, bit_list) ==
    LET b1 == add_wirevector(b, WireVector(TmpName(b), "Wire", Len(bit_list), 0))
        t  == Len(b1.wires)
    IN  [b |-> add_net(b1, LogicNet("c", <<>>, bit_list, <<t>>)), w |-> t]

\* twire(x): find or make wire named x and return it
twire(b, x) ==
    LET s == get_wirevector_by_name(b, x)
    IN  IF s # 0 THEN [b |-> b, w |-> s]
        ELSE Declared(add_wirevector(b, WireVector(x, "Wire", 1, 0)))

-----------------------------------------------------------------------------
(* input_from_blif: extract_inputs, extract_outputs *)

\* lines 112-115: the per-bit wires of a merged input vector
RECURSIVE InputBits(_, _, _, _, _)
InputBits(b, wire_in, input_name, i, bitwidth) ==
    IF i >= bitwidth THEN b
    ELSE LET b1 == add_wirevector(b, WireVector(BitName(input_name, i), "Wire", 1, 0))
             bit_wire == Len(b1.wires)
             sel == SelectBit(b1, wire_in, i)
         IN  InputBits(Assign(sel.b, bit_wire, sel.w), wire_in, input_name,
                       i + 1, bitwidth)

\* the body of extract_inputs' loop for one key of name_counts
extract_input(b, clk, merge_io_vectors, input_name, bitwidth) ==
    IF input_name = ClkName
    THEN [b |-> b, clk |-> clk \cup {input_name}]
    ELSE IF ~merge_io_vectors \/ bitwidth = 1
    THEN [b |-> add_wirevector(b, WireVector(input_name, "Input", 1, 0)), clk |-> clk]
    ELSE LET b1 == add_wirevector(b, WireVector(input_name, "Input", bitwidth, 0))
         IN  [b |-> InputBits(b1, Len(b1.wires), input_name, 0, bitwidth), clk |-> clk]

\* lines 126-130: the per-bit wires of a merged output vector, bit_list in index order
RECURSIVE OutputBits(_, _, _, _, _)
OutputBits(b, bit_list, output_name, i, bitwidth) ==
    IF i >= bitwidth THEN [b |-> b, bit_list |-> bit_list]
    ELSE LET b1 == add_wirevector(b, WireVector(BitName(output_name, i), "Wire", 1, 0))
         IN  OutputBits(b1, Append(bit_list, Len(b1.wires)), output_name,
                        i + 1, bitwidth)

\* the body of extract_outputs' loop for one key of name_counts
extract_output(b, merge_io_vectors, output_name, bitwidth) ==
    IF ~merge_io_vectors \/ bitwidth = 1
    THEN add_wirevector(b, WireVector(output_name, "Output", 1, 0))
    ELSE LET b1 == add_wirevector(b, WireVector(output_name, "Output", bitwidth, 0))
             wire_out == Len(b1.wires)
             bits == OutputBits(b1, <<>>, output_name, 0, bitwidth)
             cat == concat(bits.b, bits.bit_list)
         IN  Assign(cat.b, wire_out, cat.w)

-----------------------------------------------------------------------------
(* input_from_blif: extract_cover, extract_flop *)

CoverResult(b, clk, e) == [b |-> b, clk |-> clk, err |-> e]

\* a gate builder that ignores the operator it is given
BinaryGate_AlwaysAnd(b, op, out, x, y) ==
    LET o == twire(b, out)
        l == twire(o.b, x)
        r == twire(l.b, y)
        g == LogicOp(r.b, "&", <<l.w, r.w>>)
    IN  Assign(g.b, o.w, g.w)

\* output_wire <<= twire(x) op twire(y), output_wire found first
BinaryGate(b, op, out, x, y) ==
    LET o == twire(b, out)
        l == twire(o.b, x)
        r == twire(l.b, y)
        g == LogicOp(r.b, op, <<l.w, r.w>>)
    IN  Assign(g.b, o.w, g.w)

\* a mux with its branches exchanged: (netio[1] & ~netio[2]) | (netio[0] & netio[2])
MuxGate_BranchesSwapped(b, netio) ==
    LET o  == twire(b, netio[4])
        a0 == twire(o.b, netio[2])
        s0 == twire(a0.b, netio[3])
        ns == LogicOp(s0.b, "~", <<s0.w>>)
        l  == LogicOp(ns.b, "&", <<a0.w, ns.w>>)
        a1 == twire(l.b, netio[1])
        s1 == twire(a1.b, netio[3])
        r  == LogicOp(s1.b, "&", <<a1.w, s1.w>>)
        g  == LogicOp(r.b, "|", <<l.w, r.w>>)
    IN  Assign(g.b, o.w, g.w)

\* lines 175-177: (netio[0] & ~netio[2]) | (netio[1] & netio[2])
MuxGate(b, netio) ==
    LET o  == twire(b, netio[4])
        a0 == twire(o.b, netio[1])
        s0 == twire(a0.b, netio[3])
        ns == LogicOp(s0.b, "~", <<s0.w>>)
        l  == LogicOp(ns.b, "&", <<a0.w, ns.w>>)
        a1 == twire(l.b, netio[2])
        s1 == twire(a1.b, netio[3])
        r  == LogicOp(s1.b, "&", <<a1.w, s1.w>>)
        g  == LogicOp(r.b, "|", <<l.w, r.w>>)
    IN  Assign(g.b, o.w, g.w)

\* a simple wire that propagates clock-ness only from the driving operand
SimpleWire_FromDriverOnly(b, clk, netio) ==
    IF netio[1] \in clk THEN CoverResult(b, clk \cup {netio[2]}, "")
    ELSE LET o == twire(b, netio[2])
             i == twire(o.b, netio[1])
         IN  CoverResult(Assign(i.b, o.w, i.w), clk, "")

\* lines 154-161: populate the clock list if one operand is already a clock
SimpleWire(b, clk, netio) ==
    IF netio[2] \in clk THEN CoverResult(b, clk \cup {netio[1]}, "")
    ELSE IF netio[1] \in clk THEN CoverResult(b, clk \cup {netio[2]}, "")
    ELSE LET o == twire(b, netio[2])
             i == twire(o.b, netio[1])
         IN  CoverResult(Assign(i.b, o.w, i.w), clk, "")

\* netio[i] of the code is netio[i + 1] here; reading past the list is an IndexError
extract_cover(b, clk, netio, cover) ==
    IF cover = <<>> THEN
        LET o == twire(b, netio[1])
            c == Const(o.b, 0)
        IN  CoverResult(Assign(c.b, o.w, c.w), clk, "")
    ELSE IF cover = <<"1">> THEN
        LET o == twire(b, netio[1])
            c == Const(o.b, 1)
        IN  CoverResult(Assign(c.b, o.w, c.w), clk, "")
    ELSE IF cover = <<"1", "1">> THEN
        IF Len(netio) < 2 THEN CoverResult(b, clk, "IndexError")
        ELSE SimpleWire(b, clk, netio)
    ELSE IF cover = <<"0", "1">> THEN
        IF Len(netio) < 2 THEN CoverResult(b, clk, "IndexError")
        ELSE LET o == twire(b, netio[2])
                 i == twire(o.b, netio[1])
                 g == LogicOp(i.b, "~", <<i.w>>)
             IN  CoverResult(Assign(g.b, o.w, g.w), clk, "")
    ELSE IF cover = <<"11", "1">> THEN
        IF Len(netio) < 3 THEN CoverResult(b, clk, "IndexError")
        ELSE CoverResult(BinaryGate(b, "&", netio[3], netio[1], netio[2]), clk, "")
    ELSE IF cover = <<"1-", "1", "-1", "1">> THEN
        IF Len(netio) < 3 THEN CoverResult(b, clk, "IndexError")
        ELSE CoverResult(BinaryGate(b, "|", netio[3], netio[1], netio[2]), clk, "")
    ELSE IF cover = <<"10", "1", "01", "1">> THEN
        IF Len(netio) < 3 THEN CoverResult(b, clk, "IndexError")
        ELSE CoverResult(BinaryGate(b, "^", netio[3], netio[1], netio[2]), clk, "")
    ELSE IF cover = <<"1-0", "1", "-11", "1">> THEN
        IF Len(netio) < 4 THEN CoverResult(b, clk, "IndexError")
        ELSE CoverResult(MuxGate(b, netio), clk, "")
    ELSE CoverResult(b, clk, "unknown logic cover set")

\* a flop whose Q is wired from D, past the register
extract_flop_QFromD(b, command) ==
    LET b1 == add_wirevector(b, WireVector(RegName(command.Q), "Register", 1, 0))
        flop == Len(b1.wires)
        d == twire(b1, command.D)
        b2 == AssignNext(d.b, flop, d.w)
        flop_output == twire(b2, command.Q)
    IN  Assign(flop_output.b, flop_output.w, d.w)

\* lines 186-191: the register, its next state from D, its value to Q
extract_flop(b, command) ==
    LET b1 == add_wirevector(b, WireVector(RegName(command.Q), "Register", 1, 0))
        flop == Len(b1.wires)
        d == twire(b1, command.D)
        b2 == AssignNext(d.b, flop, d.w)
        flop_output == twire(b2, command.Q)
    IN  Assign(flop_output.b, flop_output.w, flop)

-----------------------------------------------------------------------------
(* The netlists fed to the parser *)

Vec(base, w) == [i \in 1..w |-> NI(base, i - 1)]

InputLists ==
    {<<ClkName, N("a"), N("b")>>} \cup {<<ClkName>> \o Vec("v", w) : w \in 1..MaxWidth}

OutputLists ==
    {<<N("z")>>} \cup {Vec("y", w) : w \in 1..MaxWidth}

Cmd(netio, cover) == [netio |-> netio, cover |-> cover]

CoverCommands ==
    { Cmd(<<N("n1")>>, <<>>),
      Cmd(<<N("n1")>>, <<"1">>),
      Cmd(<<N("a"), N("n1")>>, <<>>),
      Cmd(<<N("a"), N("n1")>>, <<"1", "1">>),
      Cmd(<<ClkName, N("c1")>>, <<"1", "1">>),
      Cmd(<<N("n1"), N("c1")>>, <<"1", "1">>),
      Cmd(<<N("a"), N("z")>>, <<"0", "1">>),
      Cmd(<<ClkName, N("n1")>>, <<"0", "1">>),
      Cmd(<<N("a"), N("b"), N("n1")>>, <<"11", "1">>),
      Cmd(<<N("a"), N("z")>>, <<"11", "1">>),
      Cmd(<<NI("v", 0), N("n1"), NI("y", 0)>>, <<"1-", "1", "-1", "1">>),
      Cmd(<<N("a"), N("b"), N("z")>>, <<"10", "1", "01", "1">>),
      Cmd(<<N("a"), N("b"), N("n1"), N("z")>>, <<"1-0", "1", "-11", "1">>),
      Cmd(<<N("s0"), N("s1"), N("sel"), N("out")>>, <<"1-0", "1", "-11", "1">>),
      Cmd(<<N("a"), N("b"), N("z")>>, <<"00", "1">>),
      Cmd(<<N("a"), N("b"), N("z")>>, <<"-1", "1", "1-", "1">>) }

Flop(kind, C, R, D, Q) == [kind |-> kind, C |-> C, R |-> R, D |-> D, Q |-> Q]

\* a .latch has no R operand
NoName == N("")

FlopCommands ==
    { Flop("dffs_def", ClkName, NoName, N("n1"), N("z")),
      Flop("dffas_def", N("c1"), N("rst"), N("a"), N("n1")),
      Flop("dffs_def", ClkName, NoName, NI("v", 0), NI("y", 0)) }

NoCommand == [kind |-> "none"]

-----------------------------------------------------------------------------
(* input_from_blif as a state machine *)

Block == [wires |-> wires, logic |-> logic, ok |-> TRUE]

NoEmission ==
    /\ file = <<>>
    /\ files = <<>>
    /\ order = <<>>
    /\ nodes = {}
    /\ edges = {}
    /\ edge_names = {}
    /\ uid = 1

\* no simulation has run: the register holds its default value
NoSimulation ==
    /\ state = 0
    /\ sim_trace = <<>>

Init ==
    /\ model \in [input_list : InputLists, output_list : OutputLists,
                  merge_io_vectors : BOOLEAN]
    /\ wires = <<>>
    /\ logic = <<>>
    /\ clk_set = {}
    /\ ff_clk_set = {}
    /\ pc = "extract_inputs"
    /\ err = ""
    /\ todo = NameKeys(model.input_list)
    /\ ncmd = 0
    /\ last = NoCommand
    /\ NoEmission
    /\ NoSimulation

\* the block after a step, or the error that ended the parse
Commit(b, e) ==
    /\ wires' = b.wires
    /\ logic' = b.logic
    /\ err' = IF e # "" THEN e ELSE IF ~b.ok THEN "DuplicateName" ELSE ""
    
Failed(b, e) == e # "" \/ ~b.ok

\* one iteration of "for input_name in name_counts"
ExtractInputs ==
    /\ pc = "extract_inputs"
    /\ \E input_name \in todo :
         LET r == extract_input(Block, clk_set, model.merge_io_vectors, input_name,
                                NameCount(model.input_list, input_name))
             rest == todo \ {input_name}
         IN  /\ Commit(r.b, "")
             /\ clk_set' = r.clk
             /\ IF Failed(r.b, "") THEN pc' = "error" /\ todo' = {}
                ELSE IF rest = {}
                THEN pc' = "extract_outputs" /\ todo' = NameKeys(model.output_list)
                ELSE pc' = pc /\ todo' = rest
    /\ UNCHANGED <<model, ff_clk_set, ncmd, last>>
    /\ UNCHANGED <<emitVars, simVars>>

\* one iteration of "for output_name in name_counts"
ExtractOutputs ==
    /\ pc = "extract_outputs"
    /\ \E output_name \in todo :
         LET b == extract_output(Block, model.merge_io_vectors, output_name,
                                 NameCount(model.output_list, output_name))
             rest == todo \ {output_name}
         IN  /\ Commit(b, "")
             /\ IF Failed(b, "") THEN pc' = "error" /\ todo' = {}
                ELSE IF rest = {}
                THEN pc' = "extract_commands" /\ todo' = {}
                ELSE pc' = pc /\ todo' = rest
    /\ UNCHANGED <<model, clk_set, ff_clk_set, ncmd, last>>
    /\ UNCHANGED <<emitVars, simVars>>

\* the block and the clock set as the command found them
Before(kind, command) ==
    [kind |-> kind, command |-> command, nwires |-> Len(wires),
     nlogic |-> Len(logic), clk |-> clk_set]

\* extract_commands on a name_def
ExtractCover ==
    /\ pc = "extract_commands"
    /\ ncmd < MaxCommands
    /\ \E command \in CoverCommands :
         LET r == extract_cover(Block, clk_set, command.netio, command.cover)
         IN  /\ Commit(r.b, r.err)
             /\ clk_set' = r.clk
             /\ pc' = IF Failed(r.b, r.err) THEN "error" ELSE pc
             /\ last' = Before("name_def", command)
    /\ ncmd' = ncmd + 1
    /\ UNCHANGED <<model, ff_clk_set, todo>>
    /\ UNCHANGED <<emitVars, simVars>>

\* extract_commands on a dffas_def or a dffs_def
ExtractFlop ==
    /\ pc = "extract_commands"
    /\ ncmd < MaxCommands
    /\ \E command \in FlopCommands :
         LET b == extract_flop(Block, command)
         IN  /\ Commit(b, "")
             /\ ff_clk_set' = ff_clk_set \cup {command.C}
             /\ pc' = IF Failed(b, "") THEN "error" ELSE pc
             /\ last' = Before(command.kind, command)
    /\ ncmd' = ncmd + 1
    /\ UNCHANGED <<model, clk_set, todo>>
    /\ UNCHANGED <<emitVars, simVars>>

\* command_list is exhausted (OneOrMore: it held a command)
ParseDone ==
    /\ pc = "extract_commands"
    /\ ncmd >= 1
    /\ pc' = "done"
    /\ UNCHANGED <<model, wires, logic, clk_set, ff_clk_set, err, todo, ncmd, last>>
    /\ UNCHANGED <<emitVars, simVars>>

Next ==
    \/ ExtractInputs
    \/ ExtractOutputs
    \/ ExtractCover
    \/ ExtractFlop
    \/ ParseDone

Spec == Init /\ [][Next]_vars

-----------------------------------------------------------------------------
(* What the logic added by the last command computes *)

\* the nets the last command added
NewNets == (last.nlogic + 1)..Len(logic)

NewWires == (last.nwires + 1)..Len(wires)

WireNamed(x) == get_wirevector_by_name(Block, x)

\* the net among the new ones that drives wire w, 0 when none does
Driver(w) ==
    IF \E i \in NewNets : logic[i].dests = <<w>>
    THEN CHOOSE i \in NewNets : logic[i].dests = <<w>>
    ELSE 0

\* a value no bit has
Undef == 1 + 1

GateValue(op, v) ==
    IF \E i \in DOMAIN v : v[i] = Undef THEN Undef
    ELSE IF op = "w" THEN v[1]
    ELSE IF op = "~" THEN 1 - v[1]
    ELSE IF op = "&" THEN v[1] * v[2]
    ELSE IF op = "|" THEN IF v[1] + v[2] > 0 THEN 1 ELSE 0
    ELSE IF op = "^" THEN (v[1] + v[2]) % 2
    ELSE Undef

\* the value of wire w when the operand wires carry env; the destination itself
\* (top) is read through its driver even when it is also an operand
RECURSIVE WireValue(_, _, _)
WireValue(w, env, top) ==
    IF ~top /\ w \in DOMAIN env THEN env[w]
    ELSE IF wires[w].kind = "Const" THEN wires[w].val
    ELSE LET d == Driver(w)
         IN  IF d = 0 THEN Undef
             ELSE GateValue(logic[d].op,
                     [i \in DOMAIN logic[d].args |->
                         WireValue(logic[d].args[i], env, FALSE)])

\* the cover table of the netlist format
TableCovers ==
    { <<>>, <<"1">>, <<"1", "1">>, <<"0", "1">>, <<"11", "1">>,
      <<"1-", "1", "-1", "1">>, <<"10", "1", "01", "1">>,
      <<"1-0", "1", "-11", "1">> }

TableArity(cover) ==
    IF cover \in {<<>>, <<"1">>} THEN 0
    ELSE IF cover \in {<<"1", "1">>, <<"0", "1">>} THEN 1
    ELSE IF cover = <<"1-0", "1", "-11", "1">> THEN 3
    ELSE 2

\* the tabulated operator applied to the operand values v
TableValue(cover, v) ==
    IF cover = <<>> THEN 0
    ELSE IF cover = <<"1">> THEN 1
    ELSE IF cover = <<"1", "1">> THEN v[1]
    ELSE IF cover = <<"0", "1">> THEN 1 - v[1]
    ELSE IF cover = <<"11", "1">> THEN IF v[1] = 1 /\ v[2] = 1 THEN 1 ELSE 0
    ELSE IF cover = <<"1-", "1", "-1", "1">> THEN IF v[1] = 1 \/ v[2] = 1 THEN 1 ELSE 0
    ELSE IF cover = <<"10", "1", "01", "1">> THEN IF v[1] # v[2] THEN 1 ELSE 0
    ELSE IF v[3] = 1 THEN v[2] ELSE v[1]

\* the last listed signal is a wire whose new logic computes the tabulated
\* operator of the other listed signals, whatever values they carry
DecodedAsTabulated ==
    LET netio == last.command.netio
        n == Len(netio)
        out == WireNamed(netio[n])
        operands == {WireNamed(netio[i]) : i \in 1..(n - 1)}
    IN  /\ err = ""
        /\ out # 0
        /\ 0 \notin operands
        /\ \A env \in [operands -> {0, 1}] :
              WireValue(out, env, TRUE) =
                  TableValue(last.command.cover,
                             [i \in 1..(n - 1) |-> env[WireNamed(netio[i])]])

RaisedUnsupportedCover ==
    /\ pc = "error"
    /\ err = "unknown logic cover set"
    /\ Len(wires) = last.nwires
    /\ Len(logic) = last.nlogic

ClockAliased ==
    /\ last.command.cover = <<"1", "1">>
    /\ \E i \in DOMAIN last.command.netio : last.command.netio[i] \in last.clk

\* C1 as stated: every ".names" whose rows are a table entry builds, for its last
\* listed signal, logic computing the tabulated operator; any other rows raise the
\* unsupported-cover error and build nothing.
C1_AsStated ==
    last.kind = "name_def" =>
        IF last.command.cover \in TableCovers
        THEN DecodedAsTabulated
        ELSE RaisedUnsupportedCover

\* C1 (amended): the same, for the commands that list as many signals as the table
\* entry's arity plus one and, for the simple-wire cover, name no known clock.
C1_CoverDecoding ==
    last.kind = "name_def" =>
        IF last.command.cover \in TableCovers
        THEN (/\ Len(last.command.netio) = TableArity(last.command.cover) + 1
              /\ ~ClockAliased)
             => DecodedAsTabulated
        ELSE RaisedUnsupportedCover

C1_Witness ==
    /\ last.kind = "name_def"
    /\ last.command.cover = <<"1-", "1", "-1", "1">>
    /\ Len(last.command.netio) = 3
    /\ Len(logic) = last.nlogic + 2
    /\ pc = "extract_commands"

MuxCover == <<"1-0", "1", "-11", "1">>

MuxCommand == Cmd(<<N("s0"), N("s1"), N("sel"), N("out")>>, MuxCover)

LastIsMux ==
    /\ last.kind = "name_def"
    /\ last.command.cover = MuxCover
    /\ Len(last.command.netio) = 4

\* C2 as stated: the mux cover adds a single select node, condition sel,
\* false-branch s0, true-branch s1, destination out (a select net's arguments
\* are condition, false-branch, true-branch).
C2_AsStated ==
    LastIsMux =>
        LET netio == last.command.netio
        IN  /\ Cardinality(NewNets) = 1
            /\ \A i \in NewNets :
                  /\ logic[i].op = "x"
                  /\ logic[i].args = <<WireNamed(netio[3]), WireNamed(netio[1]),
                                       WireNamed(netio[2])>>
                  /\ logic[i].dests = <<WireNamed(netio[4])>>

\* C2 (amended): the mux cover adds no select node but the five nets
\* ~sel, s0 & ~sel, s1 & sel, their or, and the buffer into out, so that
\* out = s1 when sel = 1 and out = s0 when sel = 0.
C2_MuxCover ==
    LastIsMux =>
        LET netio == last.command.netio
            s0 == WireNamed(netio[1])
            s1 == WireNamed(netio[2])
            sel == WireNamed(netio[3])
            out == WireNamed(netio[4])
            k == last.nlogic
        IN  /\ err = ""
            /\ Len(logic) = k + 5
            /\ [i \in 1..5 |-> logic[k + i].op] = <<"~", "&", "&", "|", "w">>
            /\ logic[k + 1].args = <<sel>>
            /\ logic[k + 2].args = <<s0, logic[k + 1].dests[1]>>
            /\ logic[k + 3].args = <<s1, sel>>
            /\ logic[k + 4].args = <<logic[k + 2].dests[1], logic[k + 3].dests[1]>>
            /\ logic[k + 5].args = logic[k + 4].dests
            /\ logic[k + 5].dests = <<out>>
            /\ \A env \in [{s0, s1, sel} -> {0, 1}] :
                  WireValue(out, env, TRUE) =
                      IF env[sel] = 1 THEN env[s1] ELSE env[s0]

C2_Witness ==
    /\ LastIsMux
    /\ last.command = MuxCommand
    /\ pc = "extract_commands"

-----------------------------------------------------------------------------
(* Where each bit of a wire comes from *)

\* the net that drives wire w, 0 when none does
DriverOf(w) ==
    IF \E i \in DOMAIN logic : logic[i].dests = <<w>>
    THEN CHOOSE i \in DOMAIN logic : logic[i].dests = <<w>>
    ELSE 0

\* bit i of a concatenation of args: args[1] is the most significant part, so
\* bit 0 is bit 0 of the last argument
RECURSIVE ConcatBit(_, _)
ConcatBit(args, i) ==
    LET lastw == args[Len(args)]
    IN  IF i < wires[lastw].bitwidth THEN <<lastw, i>>
        ELSE ConcatBit(SubSeq(args, 1, Len(args) - 1), i - wires[lastw].bitwidth)

\* one step back from bit i of wire w through its driver: <<wire, bit>>
BitDriver(w, i) ==
    LET d == DriverOf(w)
    IN  IF d = 0 THEN <<w, i>>
        ELSE IF logic[d].op = "w" THEN <<logic[d].args[1], i>>
        ELSE IF logic[d].op = "s" THEN <<logic[d].args[1], logic[d].op_param[i + 1]>>
        ELSE IF logic[d].op = "c" THEN ConcatBit(logic[d].args, i)
        ELSE <<w, i>>

\* back through buffers, bit selections and concatenations to an undriven wire
RECURSIVE BitSource(_, _)
BitSource(w, i) ==
    LET p == BitDriver(w, i)
    IN  IF p = <<w, i>> THEN p ELSE BitSource(p[1], p[2])

WiresNamed(x) == {i \in DOMAIN wires : wires[i].name = x}

IsWire(x, kind, bitwidth) ==
    /\ Cardinality(WiresNamed(x)) = 1
    /\ \A i \in WiresNamed(x) : wires[i].kind = kind /\ wires[i].bitwidth = bitwidth

HeaderDone == pc = "extract_commands" /\ ncmd = 0

\* the groups of width > 1 of a list of names base[0] .. base[w-1]
VectorGroups(list) == {x \in NameKeys(list) : NameCount(list, x) > 1}

MergedInput(x, w) ==
    /\ IsWire(x, "Input", w)
    /\ \A i \in 0..(w - 1) :
          /\ IsWire(BitName(x, i), "Wire", 1)
          /\ BitSource(WireNamed(BitName(x, i)), 0) = <<WireNamed(x), i>>

MergedOutput(x, w) ==
    /\ IsWire(x, "Output", w)
    /\ \A i \in 0..(w - 1) :
          /\ IsWire(BitName(x, i), "Wire", 1)
          /\ BitSource(WireNamed(x), i) = <<WireNamed(BitName(x, i)), 0>>

\* C3 as stated: with vector merging, a group base[0] .. base[w-1], w > 1, becomes
\* one w-bit Input/Output wire base and w 1-bit wires base[i]; base[i] is driven
\* by bit i of an input base, and bit i of an output base is driven by base[i].
C3_AsStated ==
    (HeaderDone /\ model.merge_io_vectors) =>
        /\ \A x \in VectorGroups(model.input_list) :
              MergedInput(x, NameCount(model.input_list, x))
        /\ \A x \in VectorGroups(model.output_list) :
              MergedOutput(x, NameCount(model.output_list, x))

Listed(list) == {list[i] : i \in DOMAIN list} \ {ClkName}

Unmerged(list, x) ==
    ~model.merge_io_vectors \/ NameCount(list, StripIndex(x)) = 1

\* C4 as stated: without merging, or in a group of width 1, every listed name but
\* clk is its own 1-bit Input/Output wire of exactly that name, and stays the wire
\* that name resolves to while commands are processed.
C4_AsStated ==
    pc \in {"extract_commands", "done"} =>
        /\ \A x \in Listed(model.input_list) :
              Unmerged(model.input_list, x) => IsWire(x, "Input", 1)
        /\ \A x \in Listed(model.output_list) :
              Unmerged(model.output_list, x) => IsWire(x, "Output", 1)

LastIsFlop == last.kind \in {"dffs_def", "dffas_def"}

\* C5: a flip-flop command adds a 1-bit register other than the wire named Q, a
\* register net from the wire named D to the register and a buffer from the register
\* to the wire named Q; it adds no wire and no net for C or R, and C joins the
\* flip-flop clock set.
C5_FlopExtraction ==
    (LastIsFlop /\ err = "") =>
        LET c == last.command
            reg == WireNamed(RegName(c.Q))
            k == last.nlogic
        IN  /\ reg \in NewWires
            /\ wires[reg].kind = "Register" /\ wires[reg].bitwidth = 1
            /\ WireNamed(c.Q) \notin {0, reg}
            /\ WireNamed(c.D) # 0
            /\ Len(logic) = k + 2
            /\ logic[k + 1] = LogicNet("r", <<>>, <<WireNamed(c.D)>>, <<reg>>)
            /\ logic[k + 2] = LogicNet("w", <<>>, <<reg>>, <<WireNamed(c.Q)>>)
            /\ \A i \in NewWires : wires[i].name \in {RegName(c.Q), c.D, c.Q}
            /\ c.C \in ff_clk_set
            /\ clk_set = last.clk

C5_Witness ==
    /\ LastIsFlop
    /\ err = ""
    /\ last.command.kind = "dffas_def"
    /\ WireNamed(last.command.R) = 0
    /\ WireNamed(last.command.C) = 0

LastIsSimpleWire ==
    /\ last.kind = "name_def"
    /\ last.command.cover = <<"1", "1">>
    /\ Len(last.command.netio) = 2

NothingBuilt == Len(wires) = last.nwires /\ Len(logic) = last.nlogic

BufferBuilt(from, to) ==
    /\ Len(logic) = last.nlogic + 1
    /\ WireNamed(from) # 0
    /\ logic[Len(logic)] = LogicNet("w", <<>>, <<WireNamed(from)>>, <<WireNamed(to)>>)

InputsDone == pc \in {"extract_outputs", "extract_commands", "done"}

ClkListed == ClkName \in {model.input_list[i] : i \in DOMAIN model.input_list}

\* C6 as stated: the input clk joins the clock set and never becomes a wire; a
\* simple wire whose driving operand is a known clock adds its destination to the
\* clock set and builds nothing, and any other simple wire builds a buffer and
\* leaves the clock set alone.
C6_AsStated ==
    /\ (InputsDone /\ ClkListed) => (ClkName \in clk_set /\ WireNamed(ClkName) = 0)
    /\ LastIsSimpleWire =>
          LET from == last.command.netio[1]
              to == last.command.netio[2]
          IN  IF from \in last.clk
              THEN clk_set = last.clk \cup {to} /\ NothingBuilt
              ELSE clk_set = last.clk /\ BufferBuilt(from, to)

\* C6 (amended): the pass over the inputs puts clk in the clock set and makes no
\* wire for it; a simple wire whose destination is a known clock adds its driving
\* operand to the clock set, else one whose driving operand is a known clock adds
\* its destination, both building nothing; any other simple wire builds a buffer
\* and leaves the clock set alone.
C6_ClockAliasing ==
    /\ (InputsDone /\ ClkListed) => ClkName \in clk_set
    /\ (HeaderDone /\ ClkListed) => WireNamed(ClkName) = 0
    /\ LastIsSimpleWire =>
          LET from == last.command.netio[1]
              to == last.command.netio[2]
          IN  IF to \in last.clk
              THEN clk_set = last.clk \cup {from} /\ NothingBuilt
              ELSE IF from \in last.clk
              THEN clk_set = last.clk \cup {to} /\ NothingBuilt
              ELSE clk_set = last.clk /\ BufferBuilt(from, to)

C6_Witness ==
    /\ LastIsSimpleWire
    /\ last.command.netio[2] \in last.clk
    /\ last.command.netio[1] \notin last.clk
    /\ last.command.netio[1] \in clk_set

-----------------------------------------------------------------------------
(* The circuits handed to the emitters *)

Circuit(ws, ls) == [wires |-> ws, logic |-> ls]

In(name, bitwidth) == WireVector(N(name), "Input", bitwidth, 0)

Out(name, bitwidth) == WireVector(N(name), "Output", bitwidth, 0)

Tmp(name) == WireVector(N(name), "Wire", 1, 0)

\* inputs a, b and one and node whose destination is output c
AndCircuit ==
    Circuit(<<In("a", 1), In("b", 1), Out("c", 1)>>,
            <<LogicNet("&", <<>>, <<1, 2>>, <<3>>)>>)

\* the same function as the parser builds it: a & b into a temporary, buffered to c
ParsedAndCircuit ==
    Circuit(<<In("a", 1), In("b", 1), Out("c", 1), Tmp("tmp4")>>,
            <<LogicNet("&", <<>>, <<1, 2>>, <<4>>), LogicNet("w", <<>>, <<4>>, <<3>>)>>)

MuxCircuit ==
    Circuit(<<In("p", 1), In("q", 1), In("r", 1), Out("o", 1)>>,
            <<LogicNet("x", <<>>, <<1, 2, 3>>, <<4>>)>>)

RegCircuit ==
    Circuit(<<In("d", 1), WireVector(N("st"), "Register", 1, 0), Out("e", 1),
              Out("ne", 1)>>,
            <<LogicNet("r", <<>>, <<1>>, <<2>>), LogicNet("=", <<>>, <<2, 1>>, <<3>>),
              LogicNet("~", <<>>, <<3>>, <<4>>)>>)

VecCircuit ==
    Circuit(<<In("v", 2), WireVector(N("const2"), "Const", 1, 1), Out("y", 2),
              Tmp("tmp4")>>,
            <<LogicNet("s", <<1>>, <<1>>, <<4>>), LogicNet("c", <<>>, <<4, 2>>, <<3>>)>>)

MemCircuit ==
    Circuit(<<In("a", 1), Out("o", 1), Tmp("tmp3")>>,
            <<LogicNet("~", <<>>, <<1>>, <<3>>), LogicNet("m", <<0>>, <<3>>, <<2>>)>>)

BadOpCircuit ==
    Circuit(<<In("a", 1), Out("o", 1)>>, <<LogicNet("@", <<>>, <<1>>, <<2>>)>>)

\* a wire n1 that no net drives, used twice by one net, and a wire n2 that no net
\* reads: what the parser leaves for a cover over a name nothing else mentions
LooseCircuit ==
    Circuit(<<In("a", 1), Out("z", 1), Tmp("n1"), Tmp("n2")>>,
            <<LogicNet("&", <<>>, <<3, 3>>, <<2>>), LogicNet("~", <<>>, <<1>>, <<4>>)>>)

Circuits ==
    {AndCircuit, ParsedAndCircuit, MuxCircuit, RegCircuit, VecCircuit, MemCircuit,
     BadOpCircuit, LooseCircuit}

NoModel == [input_list |-> <<>>, output_list |-> <<>>, merge_io_vectors |-> TRUE]

\* a block built before the emitter is called; no parse is running
InitBlock ==
    /\ \E c \in Circuits : wires = c.wires /\ logic = c.logic
    /\ model = NoModel
    /\ clk_set = {}
    /\ ff_clk_set = {}
    /\ err = ""
    /\ todo = {}
    /\ ncmd = 0
    /\ last = NoCommand
    /\ NoEmission
    /\ NoSimulation

parserVars == <<model, wires, logic, clk_set, ff_clk_set, todo, ncmd, last>>

\* the orders in which a set may be iterated
Perms(S) ==
    {f \in [1..Cardinality(S) -> S] : \A i, j \in DOMAIN f : f[i] = f[j] => i = j}

\* the members of set S as order lists them
InOrder(ord, S) == SelectSeq(ord, LAMBDA i : i \in S)

\* block.wirevector_subset(cls)
wirevector_subset(kinds) == {i \in DOMAIN wires : wires[i].kind \in kinds}

WName(i) == NameStr(wires[i].name)

WNames(ws) == [i \in DOMAIN ws |-> WName(ws[i])]

-----------------------------------------------------------------------------
(* output_to_verilog *)

\* print >> file, fmt % args
Line(fmt, args) == [fmt |-> fmt, args |-> args]

_verilog_vector_decl(i) ==
    IF wires[i].bitwidth = 1 THEN ""
    ELSE "[" \o ToString(wires[i].bitwidth - 1) \o ":0]"

DeclLines(fmt, ws) ==
    [k \in DOMAIN ws |-> Line(fmt, <<_verilog_vector_decl(ws[k]), WName(ws[k])>>)]

\* the lines _to_verilog_header prints when the wire sets iterate in order ord
_to_verilog_header(ord) ==
    LET inputs == wirevector_subset({"Input"})
        outputs == wirevector_subset({"Output"})
        registers == wirevector_subset({"Register"})
        others == DOMAIN wires \ (inputs \cup outputs \cup registers)
    IN  <<Line("module toplevel(%s);",
               WNames(InOrder(ord, inputs \cup outputs)) \o <<"clk">>)>>
        \o DeclLines("    input%s %s;", InOrder(ord, inputs))
        \o DeclLines("    output%s %s;", InOrder(ord, outputs))
        \o <<Line("", <<>>)>>
        \o DeclLines("    reg%s %s;", InOrder(ord, registers))
        \o DeclLines("    wire%s %s;", InOrder(ord, others))
        \o <<Line("", <<>>)>>

Printed(lines) == [lines |-> lines, err |-> ""]

Raised(e) == [lines |-> <<>>, err |-> e]

\* a select line whose condition is the third argument
SelectLine_ThirdIsCondition(net) ==
    Line("    assign %s = %s ? %s : %s;",
         <<WName(net.dests[1]), WName(net.args[3]), WName(net.args[1]),
           WName(net.args[2])>>)

\* lines 330-333: the argument order for 'x' is backwards from the ternary operator
SelectLine(net) ==
    Line("    assign %s = %s ? %s : %s;",
         <<WName(net.dests[1]), WName(net.args[1]), WName(net.args[3]),
           WName(net.args[2])>>)

\* lines 320-347: what one net prints, or raises
NetLine(net) ==
    IF net.op \in {"w", "~"} THEN
        Printed(<<Line("    assign %s = %s%s;",
                       <<WName(net.dests[1]), IF net.op = "w" THEN "" ELSE net.op,
                         WName(net.args[1])>>)>>)
    ELSE IF net.op \in {"&", "|", "^", "+", "-", "*", "<", ">"} THEN
        Printed(<<Line("    assign %s = %s %s %s;",
                       <<WName(net.dests[1]), WName(net.args[1]), net.op,
                         WName(net.args[2])>>)>>)
    ELSE IF net.op = "=" THEN
        Printed(<<Line("    assign %s = %s == %s;",
                       <<WName(net.dests[1]), WName(net.args[1]),
                         WName(net.args[2])>>)>>)
    ELSE IF net.op = "x" THEN Printed(<<SelectLine(net)>>)
    ELSE IF net.op = "c" THEN
        Printed(<<Line("    assign %s = {%s};",
                       <<WName(net.dests[1])>> \o WNames(net.args))>>)
    ELSE IF net.op = "s" THEN
        Printed(<<Line("    assign %s = {%s};",
                       <<WName(net.dests[1])>> \o
                       [k \in DOMAIN net.op_param |->
                           WName(net.args[1]) \o "[" \o ToString(net.op_param[k]) \o "]"])>>)
    ELSE IF net.op = "r" THEN Printed(<<>>)
    ELSE IF net.op = "m" THEN Raised("NotImplementedError")
    ELSE Raised("PyrtlInternalError")

\* the loop over block.logic: the lines printed before a net raises stay printed
RECURSIVE NetLines(_, _)
NetLines(nets, printed) ==
    IF nets = <<>> THEN Printed(printed)
    ELSE LET r == NetLine(logic[Head(nets)])
         IN  IF r.err # "" THEN [lines |-> printed, err |-> r.err]
             ELSE NetLines(Tail(nets), printed \o r.lines)

\* what _to_verilog_combinational prints, the sets iterating in orders word, nord
_to_verilog_combinational(word, nord) ==
    LET consts == InOrder(word, wirevector_subset({"Const"}))
        r == NetLines(nord,
                 [k \in DOMAIN consts |->
                     Line("    assign %s = %d;",
                          <<WName(consts[k]), ToString(wires[consts[k]].val)>>)])
    IN  IF r.err # "" THEN r ELSE Printed(r.lines \o <<Line("", <<>>)>>)

_to_verilog_sequential(nord) ==
    LET regs == SelectSeq(nord, LAMBDA k : logic[k].op = "r")
    IN  <<Line("    always @( posedge clk )", <<>>), Line("    begin", <<>>)>>
        \o [k \in DOMAIN regs |->
               Line("        %s <= %s;",
                    <<WName(logic[regs[k]].dests[1]), WName(logic[regs[k]].args[1])>>)]
        \o <<Line("    end", <<>>)>>

_to_verilog_footer == <<Line("endmodule\n", <<>>)>>

graphVars == <<order, nodes, edges, edge_names, uid>>

InitVerilog == InitBlock /\ pc = "to_verilog_header"

ToVerilogHeader ==
    /\ pc = "to_verilog_header"
    /\ \E ord \in Perms(DOMAIN wires) : file' = file \o _to_verilog_header(ord)
    /\ pc' = "to_verilog_combinational"
    /\ UNCHANGED <<parserVars, simVars, err, files, graphVars>>

ToVerilogCombinational ==
    /\ pc = "to_verilog_combinational"
    /\ \E word \in Perms(DOMAIN wires), nord \in Perms(DOMAIN logic) :
         LET r == _to_verilog_combinational(word, nord)
         IN  /\ file' = file \o r.lines
             /\ err' = r.err
             /\ pc' = IF r.err # "" THEN "verilog_error" ELSE "to_verilog_sequential"
    /\ UNCHANGED <<parserVars, simVars, files, graphVars>>

ToVerilogSequential ==
    /\ pc = "to_verilog_sequential"
    /\ \E nord \in Perms(DOMAIN logic) : file' = file \o _to_verilog_sequential(nord)
    /\ pc' = "to_verilog_footer"
    /\ UNCHANGED <<parserVars, simVars, err, files, graphVars>>

ToVerilogFooter ==
    /\ pc = "to_verilog_footer"
    /\ file' = file \o _to_verilog_footer
    /\ pc' = "verilog_done"
    /\ UNCHANGED <<parserVars, simVars, err, files, graphVars>>

\* output_to_verilog is called once more, on the same block and a new file
VerilogAgain ==
    /\ pc = "verilog_done"
    /\ files = <<>>
    /\ files' = <<file>>
    /\ file' = <<>>
    /\ pc' = "to_verilog_header"
    /\ UNCHANGED <<parserVars, simVars, err, graphVars>>

NextVerilog ==
    \/ ToVerilogHeader
    \/ ToVerilogCombinational
    \/ ToVerilogSequential
    \/ ToVerilogFooter
    \/ VerilogAgain

SpecVerilog == InitVerilog /\ [][NextVerilog]_vars

-----------------------------------------------------------------------------
(* Claims about output_to_verilog *)

FileLines == {file[k] : k \in DOMAIN file}

SelectNets == {k \in DOMAIN logic : logic[k].op = "x"}

\* the lines that assign a ternary to the destination of net k
TernaryLines(k) ==
    {l \in FileLines : /\ l.fmt = "    assign %s = %s ? %s : %s;"
                       /\ l.args[1] = WName(logic[k].dests[1])}

CombinationalPrinted ==
    pc \in {"to_verilog_sequential", "to_verilog_footer", "verilog_done"}

\* C7 as stated: a select node (arg0, arg1, arg2) with destination d is printed as
\* a ternary whose condition is arg2 and whose branches are arg0 and arg1.
C7_AsStated ==
    CombinationalPrinted =>
        \A k \in SelectNets :
            /\ Cardinality(TernaryLines(k)) = 1
            /\ \A l \in TernaryLines(k) :
                  /\ l.args[2] = WName(logic[k].args[3])
                  /\ {l.args[3], l.args[4]} =
                         {WName(logic[k].args[1]), WName(logic[k].args[2])}

\* C7 (amended): a select node (arg0, arg1, arg2) with destination d is printed as
\* the one ternary d = arg0 ? arg2 : arg1: the condition is the first argument, the
\* true branch the third and the false branch the second.
C7_SelectTernary ==
    CombinationalPrinted =>
        \A k \in SelectNets :
            TernaryLines(k) =
                {Line("    assign %s = %s ? %s : %s;",
                      <<WName(logic[k].dests[1]), WName(logic[k].args[1]),
                        WName(logic[k].args[3]), WName(logic[k].args[2])>>)}

C7_Witness ==
    /\ pc = "verilog_done"
    /\ \E k \in SelectNets : TernaryLines(k) # {}

\* C8 as stated: when the emission fails on a memory node or on an unknown
\* operator, nothing has been written to the file.
C8_AsStated == pc = "verilog_error" => file = <<>>

\* C9 as stated: two emissions of the same circuit print the same file.
C9_AsStated == (pc = "verilog_done" /\ files # <<>>) => file = files[1]

-----------------------------------------------------------------------------
(* output_to_trivialgraph *)

NetKey(k) == [net |-> TRUE, i |-> k]

WireKey(i) == [net |-> FALSE, i |-> i]

Graph == [nodes |-> nodes, edges |-> edges, edge_names |-> edge_names, uid |-> uid]

InNodes(g, key) == \E n \in g.nodes : n.key = key

NodeId(g, key) == (CHOOSE n \in g.nodes : n.key = key).id

\* an add_node that never advances the uid
add_node_UidNotAdvanced(g, key, label) ==
    [g EXCEPT !.nodes = {n \in @ : n.key # key}
                        \cup {[key |-> key, id |-> g.uid, label |-> label]}]

\* lines 213-215: nodes[x] = (uid, label), then the next uid
add_node(g, key, label) ==
    [g EXCEPT !.nodes = {n \in @ : n.key # key}
                        \cup {[key |-> key, id |-> g.uid, label |-> label]},
              !.uid = @ + 1]

\* the first member of sequence ks that is in S, 0 when none is
FirstIn(ks, S) ==
    LET hits == {i \in DOMAIN ks : ks[i] \in S}
    IN  IF hits = {} THEN 0
        ELSE ks[CHOOSE i \in hits : \A j \in hits : i <= j]

Found(g, key) == [g |-> g, key |-> key]

\* lines 232-240: the net driving wire w, or a new ??? node for w
producer(g, ord, w) ==
    LET k == FirstIn(ord.nets, {n \in DOMAIN logic :
                                   \E d \in DOMAIN logic[n].dests :
                                       logic[n].dests[d] = w})
    IN  IF k # 0 THEN Found(g, NetKey(k))
        ELSE Found(add_node(g, WireKey(w), "???"), WireKey(w))

\* lines 242-250: the net driven by wire w, or a new ??? node for w
consumer(g, ord, w) ==
    LET k == FirstIn(ord.nets, {n \in DOMAIN logic :
                                   \E a \in DOMAIN logic[n].args :
                                       logic[n].args[a] = w})
    IN  IF k # 0 THEN Found(g, NetKey(k))
        ELSE Found(add_node(g, WireKey(w), "???"), WireKey(w))

\* the names that start with 'tmp'
TmpNames == {"tmp" \o ToString(i) : i \in 1..9}

\* lines 218-221: the label of an edge that leaves frm
EdgeLabel(frm) ==
    IF ~frm.net /\ wires[frm.i].name.base \notin TmpNames THEN WName(frm.i) ELSE ""

\* lines 217-230
add_edge(g, ord, frm, to) ==
    LET f == IF InNodes(g, frm) THEN Found(g, frm) ELSE producer(g, ord, frm.i)
        t == IF InNodes(f.g, to) THEN Found(f.g, to) ELSE consumer(f.g, ord, to.i)
        e == <<NodeId(t.g, f.key), NodeId(t.g, t.key)>>
        g1 == [t.g EXCEPT !.edges = @ \cup {e}]
    IN  IF EdgeLabel(frm) = "" THEN g1
        ELSE [g1 EXCEPT !.edge_names = {x \in @ : x.edge # e}
                                        \cup {[edge |-> e, label |-> EdgeLabel(frm)]}]

\* str(op_param)
RECURSIVE JoinInts(_)
JoinInts(p) ==
    IF Len(p) = 1 THEN ToString(p[1])
    ELSE ToString(p[1]) \o ", " \o JoinInts(Tail(p))

ParamStr(p) ==
    IF p = <<>> THEN ""
    ELSE IF Len(p) = 1 THEN "(" \o ToString(p[1]) \o ",)"
    ELSE "(" \o JoinInts(p) \o ")"

\* add_node for each entry, in order
RECURSIVE AddNodes(_, _)
AddNodes(g, entries) ==
    IF entries = <<>> THEN g
    ELSE AddNodes(add_node(g, Head(entries).key, Head(entries).label), Tail(entries))

\* lines 254-256: a net and its label
NetEntries(ks) ==
    [k \in DOMAIN ks |->
        [key |-> NetKey(ks[k]),
         label |-> logic[ks[k]].op \o ParamStr(logic[ks[k]].op_param)]]

\* lines 258-262: an Input or Output wire and its name
WireEntries(ws) == [k \in DOMAIN ws |-> [key |-> WireKey(ws[k]), label |-> WName(ws[k])]]

\* lines 264-265: a Const wire and its value
ConstEntries(ws) ==
    [k \in DOMAIN ws |-> [key |-> WireKey(ws[k]), label |-> ToString(wires[ws[k]].val)]]

\* a node pass that gives the Output wires no entry
GraphNodes_NoOutputs(g, ord) ==
    LET g1 == AddNodes(g, NetEntries(ord.nets))
        g2 == AddNodes(g1, WireEntries(InOrder(ord.wires, wirevector_subset({"Input"}))))
    IN  AddNodes(g2, ConstEntries(InOrder(ord.wires, wirevector_subset({"Const"}))))

\* lines 253-265: add all of the nodes
GraphNodes(g, ord) ==
    LET g1 == AddNodes(g, NetEntries(ord.nets))
        g2 == AddNodes(g1, WireEntries(InOrder(ord.wires, wirevector_subset({"Input"}))))
        g3 == AddNodes(g2, WireEntries(InOrder(ord.wires, wirevector_subset({"Output"}))))
    IN  AddNodes(g3, ConstEntries(InOrder(ord.wires, wirevector_subset({"Const"}))))

\* sorted(net.args), sorted(net.dests)
SortedWires(ord, ws) ==
    LET Count(w) == Cardinality({k \in DOMAIN ws : ws[k] = w})
        F[i \in 0..Len(ord.wires)] ==
            IF i = 0 THEN <<>>
            ELSE F[i - 1] \o [j \in 1..Count(ord.wires[i]) |-> ord.wires[i]]
    IN  F[Len(ord.wires)]

RECURSIVE ArgEdges(_, _, _, _)
ArgEdges(g, ord, args, k) ==
    IF args = <<>> THEN g
    ELSE ArgEdges(add_edge(g, ord, WireKey(Head(args)), NetKey(k)), ord, Tail(args), k)

RECURSIVE DestEdges(_, _, _, _)
DestEdges(g, ord, dests, k) ==
    IF dests = <<>> THEN g
    ELSE DestEdges(add_edge(g, ord, NetKey(k), WireKey(Head(dests))), ord,
                   Tail(dests), k)

\* lines 268-272: add all of the edges
RECURSIVE GraphEdges(_, _, _)
GraphEdges(g, ord, ks) ==
    IF ks = <<>> THEN g
    ELSE LET k == Head(ks)
             g1 == ArgEdges(g, ord, SortedWires(ord, logic[k].args), k)
             g2 == DestEdges(g1, ord, SortedWires(ord, logic[k].dests), k)
         IN  GraphEdges(g2, ord, Tail(ks))

\* a <= b for pairs of numbers
PairLeq(a, b) == a[1] < b[1] \/ (a[1] = b[1] /\ a[2] <= b[2])

\* sorted(S), S a set of entries [rank, val], rank a pair of numbers: the vals
RECURSIVE SortedByRank(_)
SortedByRank(S) ==
    IF S = {} THEN <<>>
    ELSE LET m == CHOOSE x \in S : \A y \in S : PairLeq(x.rank, y.rank)
         IN  <<m.val>> \o SortedByRank(S \ {m})

EdgeName(g, e) ==
    IF \E x \in g.edge_names : x.edge = e
    THEN (CHOOSE x \in g.edge_names : x.edge = e).label
    ELSE ""

\* lines 275-279: print the actual output to the file
GraphFile(g) ==
    LET ns == SortedByRank({[rank |-> <<n.id, 0>>, val |-> n] : n \in g.nodes})
        es == SortedByRank({[rank |-> e, val |-> e] : e \in g.edges})
    IN  [k \in DOMAIN ns |-> Line("%s %s", <<ToString(ns[k].id), ns[k].label>>)]
        \o <<Line("#", <<>>)>>
        \o [k \in DOMAIN es |->
               Line("%s %s %s", <<ToString(es[k][1]), ToString(es[k][2]),
                                  EdgeName(g, es[k])>>)]

SetGraph(g) ==
    /\ nodes' = g.nodes
    /\ edges' = g.edges
    /\ edge_names' = g.edge_names
    /\ uid' = g.uid

InitGraph == InitBlock /\ pc = "graph_nodes"

\* sorted() orders the nets and the wires the same way all through one call
GraphAddNodes ==
    /\ pc = "graph_nodes"
    /\ \E word \in Perms(DOMAIN wires), nord \in Perms(DOMAIN logic) :
         /\ order' = [wires |-> word, nets |-> nord]
         /\ SetGraph(GraphNodes(Graph, order'))
    /\ pc' = "graph_edges"
    /\ UNCHANGED <<parserVars, simVars, err, file, files>>

GraphAddEdges ==
    /\ pc = "graph_edges"
    /\ SetGraph(GraphEdges(Graph, order, order.nets))
    /\ pc' = "graph_print"
    /\ UNCHANGED <<parserVars, simVars, err, file, files, order>>

GraphPrint ==
    /\ pc = "graph_print"
    /\ file' = file \o GraphFile(Graph)
    /\ pc' = "graph_done"
    /\ UNCHANGED <<parserVars, simVars, err, files, graphVars>>

NextGraph ==
    \/ GraphAddNodes
    \/ GraphAddEdges
    \/ GraphPrint

SpecGraph == InitGraph /\ [][NextGraph]_vars

-----------------------------------------------------------------------------
(* Claims about output_to_trivialgraph *)

OutputWires == wirevector_subset({"Output"})

DrivenByNet(w) == DriverOf(w) # 0

NodeLabels == {n.label : n \in nodes}

\* the lines of the node table: those printed before the # line
NodeTable ==
    LET sep == CHOOSE k \in DOMAIN file : file[k].fmt = "#"
    IN  SubSeq(file, 1, sep - 1)

IsAndCircuit == wires = AndCircuit.wires /\ logic = AndCircuit.logic

\* C10 as stated: an Output wire driven by a net gets no node entry of its own;
\* for inputs a, b and one and net into output c, the node table has exactly the
\* three entries a, b and the and net.
C10_AsStated ==
    pc = "graph_done" =>
        /\ \A w \in OutputWires : DrivenByNet(w) => ~InNodes(Graph, WireKey(w))
        /\ IsAndCircuit => (Len(NodeTable) = 3 /\ NodeLabels = {"a", "b", "&"})

\* C10 (amended): every Output wire gets a node entry of its own, labelled with its
\* name; for inputs a, b and one and net into output c, the node table has exactly
\* the four entries a, b, c and the and net, and the net's edge goes to c's entry.
C10_OutputNodes ==
    pc = "graph_done" =>
        /\ \A w \in OutputWires :
              \E n \in nodes : n.key = WireKey(w) /\ n.label = WName(w)
        /\ IsAndCircuit =>
              /\ Len(NodeTable) = 4
              /\ {NodeTable[k].args[2] : k \in DOMAIN NodeTable} = {"a", "b", "c", "&"}
              /\ <<NodeId(Graph, NetKey(1)), NodeId(Graph, WireKey(3))>> \in edges

C10_Witness == pc = "graph_done" /\ IsAndCircuit /\ Len(file) = 8

NodeIds == {n.id : n \in nodes}

\* the lines printed after the # line
EdgeTable ==
    LET sep == CHOOSE k \in DOMAIN file : file[k].fmt = "#"
    IN  SubSeq(file, sep + 1, Len(file))

\* the entries created while the edges were added
LazyNodes == {n \in nodes : n.label = "???"}

\* C13: the ids of the node table are exactly 1..N, no id is shared by two entries
\* (the ??? entries made while edges are added included), both ends of every edge
\* are ids of the table, and the file lists every id once and every (from, to)
\* pair at most once.
C13_DenseIds ==
    /\ NodeIds = 1..(uid - 1)
    /\ Cardinality(nodes) = uid - 1
    /\ \A n, m \in nodes : (n.id = m.id \/ n.key = m.key) => n = m
    /\ \A e \in edges : e[1] \in NodeIds /\ e[2] \in NodeIds
    /\ pc = "graph_done" =>
          /\ Len(NodeTable) = uid - 1
          /\ \A k \in DOMAIN NodeTable : NodeTable[k].args[1] = ToString(k)
          /\ Len(EdgeTable) = Cardinality(edges)
          /\ \A k \in DOMAIN EdgeTable :
                \E e \in edges :
                    /\ EdgeTable[k].args[1] = ToString(e[1])
                    /\ EdgeTable[k].args[2] = ToString(e[2])
          /\ \A j, k \in DOMAIN EdgeTable :
                (/\ EdgeTable[j].args[1] = EdgeTable[k].args[1]
                 /\ EdgeTable[j].args[2] = EdgeTable[k].args[2]) => j = k

\* the circuit with loose wires was printed: two ??? entries, each at the end of
\* an edge, and the net that reads n1 twice has one edge from it
C13_Witness ==
    /\ pc = "graph_done"
    /\ Cardinality(LazyNodes) = 2
    /\ \A n \in LazyNodes : \E e \in edges : e[1] = n.id \/ e[2] = n.id
    /\ Cardinality(edges) = 4
    /\ uid = 7

-----------------------------------------------------------------------------
(* firrtl_tests/example3-statemachine.py: the vending machine *)

MaxCycles == 6

\* [pyrtl.Const(x, bitwidth=3) for x in range(6)]
WAIT == 0
TOK1 == 1
TOK2 == 2
TOK3 == 3
DISPENSE == 4
REFUND == 5

Bits == {0, 1}

\* a == b on wires: a 1-bit result
Eq(a, b) == IF a = b THEN 1 ELSE 0

\* a | b on 1-bit wires
Or(a, b) == IF a = 1 \/ b = 1 THEN 1 ELSE 0

\* the token_in block: an elif chain closed by otherwise
TokenBlock_SkipsTok3(s) ==
    IF Eq(s, WAIT) = 1 THEN TOK1
    ELSE IF Eq(s, TOK1) = 1 THEN TOK2
    ELSE IF Eq(s, TOK2) = 1 THEN DISPENSE
    ELSE IF Eq(s, TOK3) = 1 THEN DISPENSE
    ELSE REFUND

TokenBlock(s) ==
    IF Eq(s, WAIT) = 1 THEN TOK1
    ELSE IF Eq(s, TOK1) = 1 THEN TOK2
    ELSE IF Eq(s, TOK2) = 1 THEN TOK3
    ELSE IF Eq(s, TOK3) = 1 THEN DISPENSE
    ELSE REFUND

\* the conditional_assignment block: the value state.next takes.  The conditions of
\* one level are tried in the order written and the first true one is taken; when
\* none is true the register keeps its value.
StateNext(s, token_in, req_refund) ==
    IF req_refund = 1 THEN REFUND
    ELSE IF token_in = 1 THEN TokenBlock(s)
    ELSE IF Or(Eq(s, DISPENSE), Eq(s, REFUND)) = 1 THEN WAIT
    ELSE s

\* dispense <<= state == DISPENSE
dispense(s) == Eq(s, DISPENSE)

\* refund <<= state == REFUND
refund(s) == Eq(s, REFUND)

\* the values the tracer records in one cycle
TraceEntry(s, token_in, req_refund) ==
    [token_in |-> token_in, req_refund |-> req_refund, state |-> s,
     dispense |-> dispense(s), refund |-> refund(s)]

InitSim ==
    /\ model = NoModel
    /\ wires = <<>>
    /\ logic = <<>>
    /\ clk_set = {}
    /\ ff_clk_set = {}
    /\ pc = "simulate"
    /\ err = ""
    /\ todo = {}
    /\ ncmd = 0
    /\ last = NoCommand
    /\ NoEmission
    /\ NoSimulation

\* sim.step({'token_in': t, 'req_refund': r}): the wires are traced, then the
\* register takes its next value
SimStep ==
    /\ pc = "simulate"
    /\ Len(sim_trace) < MaxCycles
    /\ \E token_in \in Bits, req_refund \in Bits :
         /\ sim_trace' = Append(sim_trace, TraceEntry(state, token_in, req_refund))
         /\ state' = StateNext(state, token_in, req_refund)
    /\ UNCHANGED <<parserVars, emitVars, pc, err>>

NextSim == SimStep

SpecSim == InitSim /\ [][NextSim]_vars

-----------------------------------------------------------------------------
(* Claims about the vending machine *)

\* the state in cycle k; cycle Len(sim_trace) + 1 is the one about to be simulated
StateAt(k) == IF k <= Len(sim_trace) THEN sim_trace[k].state ELSE state

Cycles == DOMAIN sim_trace

\* C11 as stated: in every cycle in which state is DISPENSE or REFUND, the next
\* state is WAIT, for every value of token_in and req_refund.
C11_AsStated ==
    \A k \in Cycles :
        sim_trace[k].state \in {DISPENSE, REFUND} => StateAt(k + 1) = WAIT

\* the cycles j..k-1 take the machine from WAIT to DISPENSE: WAIT is left in cycle
\* j, no cycle among them requests a refund, exactly four of them carry a token,
\* and the states go WAIT, TOK1, TOK2, TOK3 in that order
FourTokensSince(j, k) ==
    /\ sim_trace[j].state = WAIT
    /\ \A i \in (j + 1)..(k - 1) : sim_trace[i].state # WAIT
    /\ \A i \in j..(k - 1) : sim_trace[i].req_refund = 0
    /\ Cardinality({i \in j..(k - 1) : sim_trace[i].token_in = 1}) = 4
    /\ \A i \in j..(k - 1) :
          /\ sim_trace[i].state \in {WAIT, TOK1, TOK2, TOK3}
          /\ StateAt(i + 1) = sim_trace[i].state + sim_trace[i].token_in

\* C12: started in WAIT, dispense is asserted in a cycle exactly when state is
\* DISPENSE; state is DISPENSE in a cycle only after four cycles with token_in = 1
\* since the state was last WAIT (through WAIT, TOK1, TOK2, TOK3), none of them with
\* req_refund = 1; a cycle with token_in = 0 and req_refund = 0 in WAIT, TOK1, TOK2
\* or TOK3 leaves the state unchanged.
C12_FourTokensDispense ==
    /\ StateAt(1) = WAIT
    /\ \A k \in Cycles :
          /\ sim_trace[k].dispense = 1 <=> sim_trace[k].state = DISPENSE
          /\ (/\ sim_trace[k].state \in {WAIT, TOK1, TOK2, TOK3}
              /\ sim_trace[k].token_in = 0
              /\ sim_trace[k].req_refund = 0) => StateAt(k + 1) = sim_trace[k].state
    /\ \A k \in 1..(Len(sim_trace) + 1) :
          StateAt(k) = DISPENSE => \E j \in 1..(k - 1) : FourTokensSince(j, k)

\* a run that waits once with no input on the way and then dispenses
C12_Witness ==
    /\ \E k \in Cycles : sim_trace[k].state = DISPENSE /\ sim_trace[k].dispense = 1
    /\ \E k \in Cycles :
          /\ sim_trace[k].state \in {TOK1, TOK2, TOK3}
          /\ sim_trace[k].token_in = 0
          /\ sim_trace[k].req_refund = 0

====
